---------------------------- MODULE Spec2Model ----------------------------
(***************************************************************************)
(* A model of the sharded key-value storage client of dlio_benchmark:      *)
(* src/storage/wrapper_db.py (class DbWrapper) and its two callers,        *)
(* src/data_generator/db_generator.py and src/reader/db_reader.py.         *)
(*                                                                         *)
(* DbWrapper drives a native multi-node store through ctypes.  The native  *)
(* library is not part of the repository: what its calls do to the node    *)
(* stores is modelled from the node-store contract (put upserts, get       *)
(* fails for an unknown key, every call may fail), and where the Python    *)
(* code leaves the library's contract (a call on a closed handle, a read   *)
(* of a freed document, a C-string read of an unterminated buffer) the     *)
(* model takes every outcome as possible.                                  *)
(*                                                                         *)
(* Strings and byte strings are sequences of character codes; the byte 0   *)
(* is NUL.                                                                 *)
(***************************************************************************)
EXTENDS Integers, Sequences, FiniteSets, TLC

(***************************************************************************)
(* Bounds of the model.                                                    *)
(***************************************************************************)
\* DbWrapper objects ever constructed in one run (registered or not).
MaxObjs == 2
\* Entries of dataset_key, i.e. db_write calls, in one run.
MaxWrites == 2
\* Runs of db_init, from the constructor or from a caller, over all runs of
\* the process.
MaxInits == 3
\* The files of the generator's file list, and the samples per file.
NumFiles == 11
NumSamples == 11

(***************************************************************************)
(* Program constants.                                                      *)
(***************************************************************************)
\* DbWrapper.__init__: self.db_init(4)
DefaultNodes == 4
\* db_init: create_consistent_hasing_func(32)
VirtualReplicas == 32
\* db_checkpoint: bs = 8192
bs == 8192
\* The ring's position space (a fixed-width hash).
HashSpace == 65536

(***************************************************************************)
(* Strings.                                                                *)
(***************************************************************************)
\* The character code of a decimal digit.
DigitChar(d) == 48 + d

RECURSIVE Str(_)
\* str(n) / f"{n}" of a natural number: its decimal digits.
Str(n) == IF n < 10 THEN <<DigitChar(n)>>
          ELSE Append(Str(n \div 10), DigitChar(n % 10))

\* The first n elements of s (all of s when it is shorter): s[:n].
Take(s, n) == SubSeq(s, 1, IF n < Len(s) THEN n ELSE Len(s))

\* What ctypes returns for a c_char_p that points at mem: the bytes before
\* the first NUL of mem.
CStr(mem) ==
    IF \E i \in 1..Len(mem) : mem[i] = 0
    THEN LET z == CHOOSE i \in 1..Len(mem) :
                     mem[i] = 0 /\ \A j \in 1..(i - 1) : mem[j] # 0
         IN  SubSeq(mem, 1, z - 1)
    ELSE mem

(***************************************************************************)
(* Python values held by the caller's dataset list: bytes or None.         *)
(***************************************************************************)
PyBytes(b) == [none |-> FALSE, bytes |-> b]
PyNone == [none |-> TRUE, bytes |-> <<>>]

(***************************************************************************)
(* ctypes structures.                                                      *)
(***************************************************************************)
\* SizedBuf(buf, size); buf is the memory the pointer refers to.
SizedBuf(mem, n) == [buf |-> mem, size |-> n]
\* A c_char_p made from a Python bytes object points at the object's
\* buffer, which CPython ends with a NUL.
c_char_p(b) == b \o <<0>>
\* Doc(id, data)
Doc(id, data) == [id |-> id, data |-> data]

\* self.handle = None
NoHandle == [null |-> TRUE, node_num |-> 0, ch |-> 0]
\* DbHandle after db_init: node_num, and ch, which refers to the ring.
DbHandle(n, ring) == [null |-> FALSE, node_num |-> n, ch |-> ring]

(***************************************************************************)
(* The hash ring of the native library (create_consistent_hashing,         *)
(* add_node): VirtualReplicas positions per node, kept sorted; a key is    *)
(* owned by the first position at or after its hash, wrapping around.      *)
(***************************************************************************)
RECURSIVE HashFrom(_, _)
HashFrom(h, s) == IF s = <<>> THEN h
                  ELSE HashFrom((h * 31 + Head(s)) % HashSpace, Tail(s))
\* (h * m) % HashSpace for h < HashSpace, multiplied in two halves of h so
\* that no product leaves the 32-bit integers.
MulMod(h, m) ==
    ((h % 256) * m + (((h \div 256) * m) % 256) * 256) % HashSpace
\* The hash of a byte string: a position of the ring.
Hash(s) == MulMod(HashFrom(7, s), 40503)

\* The ring position of replica r of node n.
VNodePos(n, r) == Hash(<<n, r>>)

\* The virtual nodes <<position, node>> of a ring over the nodes in ns.
VNodes(ns) == {<<VNodePos(n, r), n>> : n \in ns, r \in 0..(VirtualReplicas - 1)}

\* v comes before w on the ring (by position, then by node).
Before(v, w) == v[1] < w[1] \/ (v[1] = w[1] /\ v[2] < w[2])

\* The ring built by add_node(i) for i in range(num_nodes): its virtual
\* nodes in ring order.
BuildRing(num_nodes) ==
    LET vn     == VNodes(0..(num_nodes - 1))
        ranked == {<<Cardinality({w \in vn : Before(w, v)}) + 1, v>> : v \in vn}
    IN  SubSeq([i \in 1..Cardinality(vn) |-> (CHOOSE p \in ranked : p[1] = i)[2]],
               1, Cardinality(vn))

\* The rings the library holds: Rings[k + 1] is the one built for k nodes.
\* A handle's ch refers to its ring by k.
Rings == SubSeq([i \in 1..(DefaultNodes + 1) |-> BuildRing(i - 1)], 1, DefaultNodes + 1)
RingOf(ch) == Rings[ch + 1]

RECURSIVE LowerBound(_, _, _, _)
\* The least index i in lo..hi of the sorted ring with ring[i][1] >= h, or
\* hi + 1 when there is none.
LowerBound(ring, h, lo, hi) ==
    IF lo > hi THEN lo
    ELSE LET mid == (lo + hi) \div 2
         IN  IF ring[mid][1] >= h
             THEN LowerBound(ring, h, lo, mid - 1)
             ELSE LowerBound(ring, h, mid + 1, hi)

\* What routing yields on a ring without virtual nodes: no node.
NoNode == -1

\* The node that owns key on the ring ch refers to: the first virtual node
\* at or after the key's hash, the ring's first one when there is none; no
\* node on an empty ring.
Route(ch, key) ==
    LET ring == RingOf(ch)
        i    == LowerBound(ring, Hash(key), 1, Len(ring))
    IN  IF ring = <<>> THEN NoNode
        ELSE IF i > Len(ring) THEN ring[1][2] ELSE ring[i][2]

(***************************************************************************)
(* Inputs.                                                                 *)
(***************************************************************************)
\* The uri arguments of db_write: DBGenerator.generate passes integers.
Uris == {1, 11}
\* Payloads: empty, plain, and one holding a zero byte.
Payloads == {<<>>, <<65>>, <<65, 0, 66>>}
\* The keys db_read is asked for: the written ones and one never written.
ReadKeys == {Str(u) : u \in Uris} \cup {Str(7)}
\* The list a caller hands to db_read: it holds an earlier element.
CallerDatasets == {<<PyBytes(<<90>>)>>}
\* The heap behind a document's payload buffer, up to its first NUL.
HeapTails == {<<0>>, <<5, 0>>}
\* What a read of freed memory can yield in place of a size n.
FreedSizes(n) == {n, 255}
\* The payload of the writes around db_init and of concurrent writes.
InitPayloads == {<<65>>}

(***************************************************************************)
(* State.                                                                  *)
(***************************************************************************)
VARIABLES
    instance,   \* DbWrapper.__instance: an index of objs, or 0 for None
    objs,       \* the DbWrapper objects constructed so far: handle, dataset_key
    nodes,      \* node index -> "unopened" | "open" | "closed" (the library's dbs)
    store,      \* node index -> the documents it holds (key -> bytes)
    dirty,      \* the nodes holding a put that no commit has followed
    inits,      \* how many times db_init has run
    dataset,    \* the caller's list, as the last db_read left it
    last,       \* the last call: op, obj, key and data arguments, outcome, ret
    trace,      \* the library calls and document accesses of the last call, in order
    proc,       \* "running" | "crashed" (the process died in native code)
    threads     \* thread -> where it stands in get_instance(): pc, self, ret

vars == <<instance, objs, nodes, store, dirty, inits, dataset, last, trace, proc, threads>>

Nodes == 0..(DefaultNodes - 1)
None == 0
RetNone == -1
NoKey == <<>>
NoData == <<>>

\* The threads of the process that call get_instance() concurrently.
NumThreads == 2
Threads == 1..NumThreads
\* A thread that has not called yet.
Idle == [pc |-> "idle", self |-> None, ret |-> "-", got |-> None, unset |-> FALSE,
         key |-> NoKey]

Call(op, obj, key, data, outcome, ret) ==
    [op |-> op, obj |-> obj, key |-> key, data |-> data, outcome |-> outcome, ret |-> ret]
\* One entry of trace: a library call on a node with its return code, or an
\* access to a document (node is -1 and rc is NoRc where they do not apply).
Ev(ev, node, rc) == [ev |-> ev, node |-> node, rc |-> rc]

\* How a library call ends: it returns success, it returns an error code
\* (which the Python code never looks at), or the process dies inside it.
OK == "ok"
FAIL == "fail"
SEGV == "segv"
\* The rc of a trace entry that is no library call.
NoRc == "-"

\* The nodes of the registered client's handle: range(handle.node_num).
HandleNodes == 0..(objs[instance].handle.node_num - 1)

\* What a call on node n can do.  On an open node it succeeds or fails; on a
\* handle that was never opened or is already closed the library reads a
\* dead pointer, and on an empty ring it has no node to go to: it fails or
\* the process dies.
NodeResults(n) == IF n \in Nodes /\ nodes[n] = "open" THEN {OK, FAIL} ELSE {FAIL, SEGV}
\* A call that works on every node of the handle (commit, close).
AllNodeResults == IF \A n \in HandleNodes : nodes[n] = "open" THEN {OK, FAIL} ELSE {FAIL, SEGV}

\* The bytes the library takes from a SizedBuf: size bytes from buf.
BufBytes(sb) == Take(sb.buf, sb.size)

\* store with document doc put on node n.
Put(st, n, doc) ==
    [st EXCEPT ![n] = (BufBytes(doc.id) :> BufBytes(doc.data)) @@ st[n]]

TypeOK ==
    /\ instance \in 0..MaxObjs
    /\ Len(objs) <= MaxObjs
    /\ nodes \in [Nodes -> {"unopened", "open", "closed"}]
    /\ dirty \subseteq Nodes
    /\ proc \in {"running", "crashed"}

Init ==
    /\ instance = None
    /\ objs = <<>>
    /\ nodes = [n \in Nodes |-> "unopened"]
    /\ store = [n \in Nodes |-> <<>>]
    /\ dirty = {}
    /\ inits = 0
    /\ dataset = <<>>
    /\ last = Call("start", None, NoKey, NoData, "returned", RetNone)
    /\ trace = <<>>
    /\ proc = "running"
    /\ threads = [t \in Threads |-> Idle]

(***************************************************************************)
(* DbWrapper.db_init(num_nodes): a fresh DbHandle, a ring of               *)
(* VirtualReplicas replicas per node, then couchstore_open_multiple_dbs,   *)
(* whose return code is dropped.  opened is the set of nodes the library   *)
(* managed to open.  dataset_key is not touched.                           *)
(***************************************************************************)
\* A db_init whose ring comes out different on every other run.
InitObjDrift(o, num_nodes) ==
    [o EXCEPT !.handle = DbHandle(num_nodes, IF inits % 2 = 0 THEN num_nodes
                                             ELSE num_nodes \div 2)]

InitObj(o, num_nodes) ==
    [o EXCEPT !.handle = DbHandle(num_nodes, num_nodes)]

OpenNodes(opened) ==
    [n \in Nodes |-> IF n \in opened THEN "open" ELSE nodes[n]]

\* The sets of nodes an open of num_nodes nodes can leave open: all of
\* them, or, when one open fails, the nodes before it (the failing open is
\* the first one or the last one).
OpenResults(num_nodes) == {0..(k - 1) : k \in {0, num_nodes - 1, num_nodes}}

(***************************************************************************)
(* DbWrapper.__init__: the new object's fields are set, then the singleton *)
(* check; a first construction registers the object and only then runs     *)
(* db_init(4).                                                             *)
(***************************************************************************)
NewObj == [handle |-> NoHandle, dataset_key |-> <<>>]

\* A constructor without the singleton check.
RegisteredNever == FALSE

\* __init__ raises when an instance is registered.
Registered == instance # None

\* A constructor that registers self before the singleton check.
ConstructRegisterFirst(opened) ==
    LET self == Len(objs) + 1
    IN  IF Registered
        THEN /\ instance' = self
             /\ objs' = Append(objs, NewObj)
             /\ UNCHANGED <<nodes, inits>>
        ELSE /\ instance' = self
             /\ objs' = Append(objs, InitObj(NewObj, DefaultNodes))
             /\ nodes' = OpenNodes(opened)
             /\ inits' = inits + 1

\* The effect of DbWrapper() on instance, objs, nodes, inits: it raises
\* when an instance is registered.
Construct(opened) ==
    LET self == Len(objs) + 1
    IN  IF Registered
        THEN /\ objs' = Append(objs, NewObj)
             /\ UNCHANGED <<instance, nodes, inits>>
        ELSE /\ instance' = self
             /\ objs' = Append(objs, InitObj(NewObj, DefaultNodes))
             /\ nodes' = OpenNodes(opened)
             /\ inits' = inits + 1

\* A caller runs DbWrapper().
DbWrapperCall ==
    /\ proc = "running"
    /\ Len(objs) < MaxObjs
    /\ \E opened \in OpenResults(DefaultNodes) :
         /\ Construct(opened)
         /\ last' = IF Registered
                    THEN Call("DbWrapper", Len(objs) + 1, NoKey, NoData, "Exception", RetNone)
                    ELSE Call("DbWrapper", Len(objs) + 1, NoKey, NoData, "returned", Len(objs) + 1)
         /\ trace' = IF Registered THEN <<>>
                     ELSE <<Ev("open_multiple_dbs", -1,
                               IF opened = Nodes THEN OK ELSE FAIL)>>
    /\ UNCHANGED <<store, dirty, dataset, proc, threads>>

(***************************************************************************)
(* DbWrapper.get_instance(): construct when nothing is registered, return  *)
(* the registered instance.                                                *)
(***************************************************************************)
get_instance ==
    /\ proc = "running"
    /\ IF instance = None
       THEN /\ Len(objs) < MaxObjs
            /\ \E opened \in OpenResults(DefaultNodes) :
                 /\ Construct(opened)
                 /\ trace' = <<Ev("open_multiple_dbs", -1,
                                  IF opened = Nodes THEN OK ELSE FAIL)>>
       ELSE /\ UNCHANGED <<instance, objs, nodes, inits>>
            /\ trace' = <<>>
    /\ last' = Call("get_instance", None, NoKey, NoData, "returned", instance')
    /\ UNCHANGED <<store, dirty, dataset, proc, threads>>


(***************************************************************************)
(* DbWrapper.db_write(uri, data): one Doc with key f"{uri}" and the        *)
(* payload, couchstore_save_document_to_nodes, the append to dataset_key,  *)
(* couchstore_commit_nodes.  No return code is looked at.                  *)
(***************************************************************************)
\* The document db_write hands to the library.
WriteDoc(uri, data) ==
    LET key == Str(uri)
    IN  Doc(SizedBuf(c_char_p(key), Len(key)), SizedBuf(c_char_p(data), Len(data)))

\* dataset_key after db_write's put returned put_rc.
WriteKeys(keys, key, put_rc) == Append(keys, key)

\* A commit that is handed the node the key routes to.
CommitRouted(n) == {n}

\* The nodes couchstore_commit_nodes works on in a db_write routed to node
\* n: it is handed the handle and nothing of the document, so every node of
\* the handle.
CommitNodes(n) == HandleNodes

\* The nodes holding an uncommitted put after db_write's put on node n and
\* its commit.
Uncommitted(d, n, put_rc, commit_rc) ==
    LET after_put == IF put_rc = OK THEN d \cup {n} ELSE d
    IN  IF commit_rc = OK THEN after_put \ CommitNodes(n) ELSE after_put

db_write(uri, data) ==
    LET self == objs[instance]
        key  == Str(uri)
        doc  == WriteDoc(uri, data)
        n    == Route(self.handle.ch, BufBytes(doc.id))
    IN  /\ proc = "running"
        /\ instance # None
        /\ Len(self.dataset_key) < MaxWrites
        /\ \E put_rc \in NodeResults(n), commit_rc \in AllNodeResults :
             IF put_rc = SEGV
             THEN /\ proc' = "crashed"
                  /\ trace' = <<Ev("save_document", n, SEGV)>>
                  /\ last' = Call("db_write", instance, key, data, "crashed", RetNone)
                  /\ UNCHANGED <<objs, store, dirty>>
             ELSE /\ store' = IF put_rc = OK THEN Put(store, n, doc) ELSE store
                  /\ objs' = [objs EXCEPT ![instance].dataset_key =
                                  WriteKeys(self.dataset_key, key, put_rc)]
                  /\ dirty' = Uncommitted(dirty, n, put_rc, commit_rc)
                  /\ proc' = IF commit_rc = SEGV THEN "crashed" ELSE "running"
                  /\ trace' = <<Ev("save_document", n, put_rc),
                                Ev("append_key", -1, NoRc),
                                Ev("commit_nodes",
                                   IF CommitNodes(n) = {n} THEN n ELSE -1, commit_rc)>>
                  /\ last' = Call("db_write", instance, key, data,
                                  IF commit_rc = SEGV THEN "crashed" ELSE "returned",
                                  RetNone)
        /\ UNCHANGED <<instance, nodes, inits, dataset, threads>>

(***************************************************************************)
(* DbWrapper.db_read(uri, dataset): couchstore_open_document_from_nodes    *)
(* fills rq_doc; rq_doc.contents.data.buf is read as a C string and        *)
(* appended; id.buf is cleared; couchstore_free_document; then             *)
(* rq_doc.contents.data.size is read and returned.                         *)
(***************************************************************************)
\* What the get on node n can do for key: on an open node the document if
\* it is there (or an I/O error), an error if it is not.
GetResults(n, key) ==
    IF n \in Nodes /\ nodes[n] = "open"
    THEN IF key \in DOMAIN store[n] THEN {OK, FAIL} ELSE {FAIL}
    ELSE {FAIL, SEGV}

\* The documents the library can hand back for stored bytes v: data.size is
\* Len(v); data.buf points at a copy of v with whatever the heap holds
\* behind it, or is NULL for an empty payload (an allocation of 0 bytes).
ReturnedDocs(key, v) ==
    {[id |-> SizedBuf(key, Len(key)), data |-> SizedBuf(v \o t, Len(v)), nullbuf |-> FALSE]
        : t \in HeapTails}
    \cup (IF v = <<>>
          THEN {[id |-> SizedBuf(key, Len(key)), data |-> SizedBuf(<<>>, 0), nullbuf |-> TRUE]}
          ELSE {})

\* The Python value of rq_doc.contents.data.buf, a c_char_p field.
DataBufValue(doc) == IF doc.nullbuf THEN PyNone ELSE PyBytes(CStr(doc.data.buf))

\* The accesses db_read makes to the returned document, in program order.
ReadAccesses == <<Ev("read_data_buf", -1, NoRc), Ev("clear_id_buf", -1, NoRc),
                  Ev("free_document", -1, NoRc), Ev("read_data_size", -1, NoRc)>>

\* The values the read of data.size yields, given where it stands among the
\* accesses: after the free it reads freed memory.
SizeRead(doc, accesses) ==
    LET pos(e) == CHOOSE i \in 1..Len(accesses) : accesses[i].ev = e
    IN  IF pos("read_data_size") > pos("free_document")
        THEN FreedSizes(doc.data.size)
        ELSE {doc.data.size}

db_read(key, ds) ==
    LET self == objs[instance]
        n    == Route(self.handle.ch, key)
    IN  /\ proc = "running"
        /\ instance # None
        /\ \E get_rc \in GetResults(n, key) :
             CASE get_rc = SEGV ->
                    /\ proc' = "crashed"
                    /\ dataset' = ds
                    /\ trace' = <<Ev("open_document", n, SEGV)>>
                    /\ last' = Call("db_read", instance, key, NoData, "crashed", RetNone)
               [] get_rc = FAIL ->
                    \* rq_doc is still NULL: rq_doc.contents raises
                    \* ValueError("NULL pointer access").
                    /\ proc' = proc
                    /\ dataset' = ds
                    /\ trace' = <<Ev("open_document", n, FAIL), Ev("deref_null", -1, NoRc)>>
                    /\ last' = Call("db_read", instance, key, NoData, "ValueError", RetNone)
               [] get_rc = OK ->
                    \E doc \in ReturnedDocs(key, store[n][key]) :
                    \E size \in SizeRead(doc, ReadAccesses) :
                      /\ proc' = proc
                      /\ dataset' = Append(ds, DataBufValue(doc))
                      /\ trace' = <<Ev("open_document", n, OK)>> \o ReadAccesses
                      /\ last' = Call("db_read", instance, key, NoData, "returned", size)
        /\ UNCHANGED <<instance, objs, nodes, store, dirty, inits, threads>>

(***************************************************************************)
(* DbWrapper.db_close(): couchstore_close_multiple_dbs on the handle.  A   *)
(* close that succeeds closes every node; one that fails may have closed   *)
(* the open nodes or none.                                                 *)
(***************************************************************************)
CloseNodes == [n \in Nodes |-> IF nodes[n] = "open" THEN "closed" ELSE nodes[n]]

db_close ==
    /\ proc = "running"
    /\ instance # None
    /\ \E rc \in AllNodeResults :
       \E after \in IF rc = OK THEN {CloseNodes}
                    ELSE IF rc = FAIL THEN {CloseNodes, nodes}
                    ELSE {nodes} :
         /\ proc' = IF rc = SEGV THEN "crashed" ELSE "running"
         /\ nodes' = after
         /\ trace' = <<Ev("close_multiple_dbs", -1, rc)>>
         /\ last' = Call("db_close", instance, NoKey, NoData,
                         IF rc = SEGV THEN "crashed" ELSE "returned", RetNone)
    /\ UNCHANGED <<instance, objs, store, dirty, inits, dataset, threads>>

(***************************************************************************)
(* DbWrapper.db_checkpoint(uri, data): size = len(data)//bs + 1, and for   *)
(* i in range(size - 1) a Doc with key f"c{i}" and value                   *)
(* data[i*bs:(i+1)*bs] is saved.  No return code is looked at, nothing is  *)
(* committed, dataset_key is not touched.  data is a str of ASCII          *)
(* characters, which UTF-8 encodes as one byte each.                       *)
(***************************************************************************)
\* data[a:b] for 0 <= a <= b.
Slice(data, a, b) == SubSeq(data, a + 1, IF b < Len(data) THEN b ELSE Len(data))

\* value.encode('utf-8') of an ASCII string.
EncodeAscii(value) == value

\* size = len(data)//bs + 1
CheckpointSize(data) == Len(data) \div bs + 1
\* A loop over range(size).
CheckpointRangeAll(data) == 0..(CheckpointSize(data) - 1)

\* range(size - 1)
CheckpointRange(data) == 0..(CheckpointSize(data) - 1 - 1)

\* key = f"c{i}"
ChunkKey(uri, i) == <<99>> \o Str(i)

\* docs[i] as the loop fills it.
ChunkDoc(uri, data, i) ==
    LET key   == ChunkKey(uri, i)
        value == Slice(data, i * bs, (i + 1) * bs)
    IN  Doc(SizedBuf(c_char_p(key), Len(key)),
            SizedBuf(c_char_p(EncodeAscii(value)), Len(value)))

\* The documents of node n after the documents docs were put on it.
PutAll(st, n, docs) ==
    LET new == {BufBytes(d.id) : d \in docs}
    IN  [k \in DOMAIN st[n] \cup new |->
            IF k \in new THEN BufBytes((CHOOSE d \in docs : BufBytes(d.id) = k).data)
            ELSE st[n][k]]

db_checkpoint(uri, data) ==
    LET self    == objs[instance]
        idx     == CheckpointRange(data)
        doc(i)  == ChunkDoc(uri, data, i)
        node(i) == Route(self.handle.ch, BufBytes(doc(i).id))
    IN  /\ proc = "running"
        /\ instance # None
        /\ \E res \in [idx -> {OK, FAIL, SEGV}] :
             /\ \A i \in idx : res[i] \in NodeResults(node(i))
             /\ LET dead   == {i \in idx : res[i] = SEGV}
                    stop   == IF dead = {} THEN Cardinality(idx)
                              ELSE CHOOSE i \in dead : \A j \in dead : i <= j
                    put    == {i \in idx : i < stop /\ res[i] = OK}
                    issued == IF dead = {} THEN stop ELSE stop + 1
                IN  /\ store' = [n \in Nodes |->
                                    PutAll(store, n, {doc(i) : i \in {j \in put : node(j) = n}})]
                    /\ dirty' = dirty \cup {node(i) : i \in put}
                    /\ proc' = IF dead = {} THEN "running" ELSE "crashed"
                    /\ trace' = [j \in 1..issued |->
                                    Ev("save_document", node(j - 1), res[j - 1])]
                    /\ last' = Call("db_checkpoint", instance, uri, data,
                                    IF dead = {} THEN "returned" ELSE "crashed", RetNone)
        /\ UNCHANGED <<instance, objs, nodes, inits, dataset, threads>>

\* The uri arguments of db_checkpoint.
CheckpointUris == {<<109>>, <<110>>}
\* Checkpoint data shorter than one chunk.
ShortData == {<<97, 98>>}

Next ==
    \/ DbWrapperCall
    \/ get_instance
    \/ \E uri \in Uris, data \in Payloads : db_write(uri, data)
    \/ \E key \in ReadKeys, ds \in CallerDatasets : db_read(key, ds)
    \/ \E uri \in CheckpointUris, data \in ShortData : db_checkpoint(uri, data)
    \/ db_close

Spec == Init /\ [][Next]_vars

(***************************************************************************)
(* Checkpoints of data around the chunk size, on an initialised client     *)
(* whose nodes are all open.                                               *)
(***************************************************************************)
\* A string of n ASCII characters; p picks the text.
Text(p, n) == [i \in 1..n |-> 97 + ((i + p) % 3)]
\* The lengths of checkpoint data: around 0, bs and 2*bs.
DataLengths == {0, 1, bs - 1, bs, bs + 1, 2 * bs}
LongData == {Text(p, n) : p \in {0, 1}, n \in DataLengths}

InitCheckpoint ==
    /\ instance = 1
    /\ objs = <<InitObj(NewObj, DefaultNodes)>>
    /\ nodes = [n \in Nodes |-> "open"]
    /\ store = [n \in Nodes |-> <<>>]
    /\ dirty = {}
    /\ inits = 1
    /\ dataset = <<>>
    /\ last = Call("get_instance", None, NoKey, NoData, "returned", 1)
    /\ trace = <<Ev("open_multiple_dbs", -1, OK)>>
    /\ proc = "running"
    /\ threads = [t \in Threads |-> Idle]

NextCheckpoint ==
    \E uri \in CheckpointUris, data \in LongData : db_checkpoint(uri, data)

SpecCheckpoint == InitCheckpoint /\ [][NextCheckpoint]_vars


(***************************************************************************)
(* Threads of one process calling DbWrapper.get_instance() at the same     *)
(* time.  Python may switch threads between any two statements, and ctypes *)
(* releases the interpreter lock during a library call, so every           *)
(* statement that reads or writes __instance, and the two halves of        *)
(* db_init (the handle, the open), is a step of its own.                   *)
(***************************************************************************)
At(t, where) == threads[t].pc = where
Goto(t, where) == threads' = [threads EXCEPT ![t].pc = where]
ThreadFrame == <<store, dirty, dataset, last, trace, proc>>

\* get_instance is called.
t_call(t) ==
    /\ At(t, "idle")
    /\ Goto(t, "line55")
    /\ UNCHANGED <<instance, objs, nodes, inits, ThreadFrame>>

\* line 55: if DbWrapper.__instance == None
t_test(t) ==
    /\ At(t, "line55")
    /\ Goto(t, IF instance = None THEN "line45" ELSE "line57")
    /\ UNCHANGED <<instance, objs, nodes, inits, ThreadFrame>>

\* lines 45-46: the new object's handle and dataset_key
t_fields(t) ==
    /\ At(t, "line45")
    /\ Len(objs) < MaxObjs
    /\ objs' = Append(objs, NewObj)
    /\ threads' = [threads EXCEPT ![t].pc = "line48", ![t].self = Len(objs) + 1]
    /\ UNCHANGED <<instance, nodes, inits, ThreadFrame>>

\* lines 48-49: if DbWrapper.__instance != None: raise
t_check(t) ==
    /\ At(t, "line48")
    /\ threads' = IF Registered
                  THEN [threads EXCEPT ![t].pc = "done", ![t].ret = "Exception"]
                  ELSE [threads EXCEPT ![t].pc = "line51"]
    /\ UNCHANGED <<instance, objs, nodes, inits, ThreadFrame>>

\* line 51: DbWrapper.__instance = self
t_register(t) ==
    /\ At(t, "line51")
    /\ instance' = threads[t].self
    /\ Goto(t, "line64")
    /\ UNCHANGED <<objs, nodes, inits, ThreadFrame>>

\* db_init, lines 64-74: the handle and the ring
t_handle(t) ==
    /\ At(t, "line64")
    /\ objs' = [objs EXCEPT ![threads[t].self] = InitObj(@, DefaultNodes)]
    /\ inits' = inits + 1
    /\ Goto(t, "line75")
    /\ UNCHANGED <<instance, nodes, ThreadFrame>>

\* db_init, line 75: couchstore_open_multiple_dbs
t_open(t) ==
    /\ At(t, "line75")
    /\ \E opened \in OpenResults(DefaultNodes) : nodes' = OpenNodes(opened)
    /\ Goto(t, "line57")
    /\ UNCHANGED <<instance, objs, inits, ThreadFrame>>

\* line 57: return DbWrapper.__instance
t_return(t) ==
    /\ At(t, "line57")
    /\ threads' = [threads EXCEPT ![t].pc = "done", ![t].ret = "returned",
                                  ![t].got = instance,
                                  ![t].unset = objs[instance].handle.null]
    /\ UNCHANGED <<instance, objs, nodes, inits, ThreadFrame>>

NextThreads ==
    \E t \in Threads :
        \/ t_call(t)
        \/ t_test(t)
        \/ t_fields(t)
        \/ t_check(t)
        \/ t_register(t)
        \/ t_handle(t)
        \/ t_open(t)
        \/ t_return(t)

SpecThreads == Init /\ [][NextThreads]_vars


(***************************************************************************)
(* Threads of one process calling db_write on the shared client at the     *)
(* same time, each with a key of its own.  db_write takes no lock.  ctypes *)
(* releases the interpreter lock for the length of a library call, so a    *)
(* thread inside couchstore_save_document_to_nodes or                      *)
(* couchstore_commit_nodes does not keep the others from running;          *)
(* list.append runs under the interpreter lock and is one step.            *)
(***************************************************************************)
\* The uri arguments of the concurrent writes.
WriterUris == Uris \cup {7}

\* The node thread t's key routes to.
WriterNode(t) == Route(objs[instance].handle.ch, threads[t].key)

\* lines 99-109: db_write(uri, data) is called and fills its document
w_call(t, uri) ==
    /\ At(t, "idle")
    /\ \A u \in Threads : threads[u].key # Str(uri)
    /\ threads' = [threads EXCEPT ![t].pc = "line110", ![t].key = Str(uri)]
    /\ UNCHANGED <<instance, objs, nodes, inits, ThreadFrame>>

\* line 110: the thread enters couchstore_save_document_to_nodes
w_put_enter(t) ==
    /\ At(t, "line110")
    /\ Goto(t, "in_put")
    /\ UNCHANGED <<instance, objs, nodes, inits, ThreadFrame>>

\* line 110: the put returns; its code is dropped
w_put_return(t, data) ==
    LET n   == WriterNode(t)
        doc == Doc(SizedBuf(c_char_p(threads[t].key), Len(threads[t].key)),
                   SizedBuf(c_char_p(data), Len(data)))
    IN  /\ At(t, "in_put")
        /\ \E put_rc \in NodeResults(n) :
             /\ store' = IF put_rc = OK THEN Put(store, n, doc) ELSE store
             /\ dirty' = Uncommitted(dirty, n, put_rc, FAIL)
             /\ threads' = [threads EXCEPT ![t].pc = "line111", ![t].ret = put_rc]
        /\ UNCHANGED <<instance, objs, nodes, inits, dataset, last, trace, proc>>

\* line 111: self.dataset_key.append(key)
w_append(t) ==
    /\ At(t, "line111")
    /\ objs' = [objs EXCEPT ![instance].dataset_key =
                    WriteKeys(@, threads[t].key, threads[t].ret)]
    /\ Goto(t, "line112")
    /\ UNCHANGED <<instance, nodes, inits, ThreadFrame>>

\* line 112: the thread enters couchstore_commit_nodes
w_commit_enter(t) ==
    /\ At(t, "line112")
    /\ Goto(t, "in_commit")
    /\ UNCHANGED <<instance, objs, nodes, inits, ThreadFrame>>

\* line 112: the commit returns; its code is dropped
w_commit_return(t) ==
    /\ At(t, "in_commit")
    /\ \E commit_rc \in AllNodeResults :
         dirty' = Uncommitted(dirty, WriterNode(t), FAIL, commit_rc)
    /\ Goto(t, "done")
    /\ UNCHANGED <<instance, objs, nodes, store, inits, dataset, last, trace, proc>>

NextWriters ==
    \E t \in Threads :
        \/ \E uri \in WriterUris : w_call(t, uri)
        \/ w_put_enter(t)
        \/ \E data \in InitPayloads : w_put_return(t, data)
        \/ w_append(t)
        \/ w_commit_enter(t)
        \/ w_commit_return(t)

SpecWriters == InitCheckpoint /\ [][NextWriters]_vars


(***************************************************************************)
(* db_init called on the registered client by a caller, and the process    *)
(* ending and starting again on the same file path.  db_init checks        *)
(* nothing: it replaces self.handle with a fresh DbHandle of num_nodes     *)
(* nodes, builds a new ring and opens the nodes again; the handle it       *)
(* replaces is neither closed nor kept.  dataset_key is not touched.       *)
(***************************************************************************)
\* The dbs of a fresh handle after couchstore_open_multiple_dbs opened the
\* nodes in opened: the others were never opened through this handle.
ReopenNodes(opened) ==
    [n \in Nodes |-> IF n \in opened THEN "open" ELSE "unopened"]

\* The num_nodes arguments of db_init: none, and the constructor's.
InitNodeCounts == {0, DefaultNodes}

db_init(num_nodes) ==
    /\ proc = "running"
    /\ instance # None
    /\ inits < MaxInits
    /\ \E opened \in OpenResults(num_nodes) :
         /\ objs' = [objs EXCEPT ![instance] = InitObj(@, num_nodes)]
         /\ nodes' = ReopenNodes(opened)
         /\ trace' = <<Ev("open_multiple_dbs", -1,
                          IF opened = 0..(num_nodes - 1) THEN OK ELSE FAIL)>>
    /\ inits' = inits + 1
    /\ last' = Call("db_init", instance, NoKey, <<num_nodes>>, "returned", RetNone)
    /\ UNCHANGED <<instance, store, dirty, dataset, proc, threads>>

\* The process ends (or has died) and the program is started again: the
\* class attribute __instance is None, no object exists, no node is open;
\* the node stores under the file path keep their documents.
restart ==
    /\ instance # None
    /\ inits < MaxInits
    /\ instance' = None
    /\ objs' = <<>>
    /\ nodes' = [n \in Nodes |-> "unopened"]
    /\ dirty' = {}
    /\ dataset' = <<>>
    /\ proc' = "running"
    /\ trace' = <<>>
    /\ last' = Call("restart", None, NoKey, NoData, "returned", RetNone)
    /\ UNCHANGED <<store, inits, threads>>

NextInit ==
    \/ get_instance
    \/ \E num_nodes \in InitNodeCounts : db_init(num_nodes)
    \/ \E uri \in Uris, data \in InitPayloads : db_write(uri, data)
    \/ \E key \in ReadKeys, ds \in CallerDatasets : db_read(key, ds)
    \/ db_close
    \/ restart

SpecInit == Init /\ [][NextInit]_vars


(***************************************************************************)
(* DBGenerator.generate: for every file of the file list and every sample  *)
(* index i in range(num_samples), one db_write whose key is                *)
(* int(str(int(digits)) + str(i)), digits being the file's name without    *)
(* 'part', '.db', 'of' and '_'.  The file list is built outside this       *)
(* module of the program; its names have the form part_<index>_of_<total>  *)
(* .db, the form the replacements take apart.                              *)
(***************************************************************************)
RECURSIVE RemoveAll(_, _)
\* s.replace(pat, ''): s without the occurrences of pat, left to right.
RemoveAll(s, pat) ==
    IF Len(s) < Len(pat) THEN s
    ELSE IF SubSeq(s, 1, Len(pat)) = pat
         THEN RemoveAll(SubSeq(s, Len(pat) + 1, Len(s)), pat)
         ELSE <<Head(s)>> \o RemoveAll(Tail(s), pat)

RECURSIVE ParseInt(_)
\* int(s) of a string of decimal digits: leading zeros do not count.
ParseInt(s) ==
    IF s = <<>> THEN 0
    ELSE ParseInt(SubSeq(s, 1, Len(s) - 1)) * 10 + (s[Len(s)] - DigitChar(0))

\* The name of file f of the file list: "part_<f>_of_<NumFiles>.db".
FileName(f) ==
    <<112, 97, 114, 116, 95>> \o Str(f) \o <<95, 111, 102, 95>> \o Str(NumFiles)
        \o <<46, 100, 98>>

\* name.replace('part', '').replace('.db', '').replace('of', '').replace('_', '')
FileDigits(name) ==
    RemoveAll(RemoveAll(RemoveAll(RemoveAll(name, <<112, 97, 114, 116>>),
                                  <<46, 100, 98>>),
                        <<111, 102>>),
              <<95>>)

\* The uri of sample i of file f: int(str(int(digits)) + str(i)).
GenKey(f, i) ==
    ParseInt(Str(ParseInt(FileDigits(FileName(f)))) \o Str(i))

\* The serialized record of sample i of file f: every sample has its own.
Serialized(f, i) == <<f, i>>

\* The files and the sample indices of a run of generate.
Files == 1..NumFiles
Samples == 0..(NumSamples - 1)

\* One turn of the inner loop: the db_write of sample i of file f.
generate(f, i) == db_write(GenKey(f, i), Serialized(f, i))

NextGenerate == \E f \in Files, i \in Samples : generate(f, i)

SpecGenerate == InitCheckpoint /\ [][NextGenerate]_vars


(***************************************************************************)
(* DBReader.read: dataset = [], then for key in self._db.dataset_key one   *)
(* db_read(f"{key}", dataset), whose return value is added to              *)
(* db_read_total; an exception of a db_read ends the loop and the call.    *)
(* After the loop the None elements are taken out of dataset.  The keys of *)
(* dataset_key are strings already, so f"{key}" is key.                    *)
(***************************************************************************)
RECURSIVE WithoutRepeats(_)
\* The keys of a list, each at its first place only.
WithoutRepeats(keys) ==
    IF keys = <<>> THEN <<>>
    ELSE LET front == WithoutRepeats(SubSeq(keys, 1, Len(keys) - 1))
             key   == keys[Len(keys)]
         IN  IF \E j \in DOMAIN front : front[j] = key THEN front
             ELSE Append(front, key)

\* A loop that visits every key once.
LoopKeysOnce(keys) == WithoutRepeats(keys)

\* The keys the loop visits, in its order: for key in self._db.dataset_key.
LoopKeys(keys) == keys

\* The calls and accesses of one db_read whose get on node n returned rc.
ReadEvents(n, rc) ==
    IF rc = OK THEN <<Ev("open_document", n, OK)>> \o ReadAccesses
    ELSE IF rc = FAIL THEN <<Ev("open_document", n, FAIL), Ev("deref_null", -1, NoRc)>>
    ELSE <<Ev("open_document", n, SEGV)>>

RECURSIVE Flatten(_)
\* The concatenation of a list of lists.
Flatten(ss) == IF ss = <<>> THEN <<>> ELSE Head(ss) \o Flatten(Tail(ss))

RECURSIVE Sum(_)
Sum(ns) == IF ns = <<>> THEN 0 ELSE Head(ns) + Sum(Tail(ns))

\* [element for element in dataset if element is not None]
NotNone(ds) == SelectSeq(ds, LAMBDA e : ~e.none)

read ==
    LET self    == objs[instance]
        keys    == LoopKeys(self.dataset_key)
        node(j) == Route(self.handle.ch, keys[j])
        docs(j) == ReturnedDocs(keys[j], store[node(j)][keys[j]])
    IN  /\ proc = "running"
        /\ instance # None
        /\ \E res \in [DOMAIN keys -> {OK, FAIL, SEGV}] :
             /\ \A j \in DOMAIN keys : res[j] \in GetResults(node(j), keys[j])
             /\ LET bad    == {j \in DOMAIN keys : res[j] # OK}
                    issued == IF bad = {} THEN Len(keys)
                              ELSE CHOOSE j \in bad : \A k \in bad : j <= k
                    got    == IF bad = {} THEN issued ELSE issued - 1
                    every  == UNION {docs(j) : j \in 1..got}
                IN  \E doc \in [1..got -> every] :
                      /\ \A j \in 1..got : doc[j] \in docs(j)
                      /\ \E size \in [1..got -> UNION {SizeRead(doc[j], ReadAccesses)
                                                         : j \in 1..got}] :
                           /\ \A j \in 1..got : size[j] \in SizeRead(doc[j], ReadAccesses)
                           /\ last' = Call("read", instance, NoKey,
                                           SubSeq(keys, 1, issued),
                                           IF bad = {} THEN "returned"
                                           ELSE IF res[issued] = FAIL THEN "ValueError"
                                           ELSE "crashed",
                                           Sum(size))
                      /\ dataset' = LET filled == [j \in 1..got |-> DataBufValue(doc[j])]
                                    IN  IF bad = {} THEN NotNone(filled) ELSE filled
                      /\ trace' = Flatten([j \in 1..issued |-> ReadEvents(node(j), res[j])])
                      /\ proc' = IF bad # {} /\ res[issued] = SEGV THEN "crashed"
                                 ELSE "running"
        /\ UNCHANGED <<instance, objs, nodes, store, dirty, inits, threads>>

\* The payload of the writes a reader follows: a record that holds a zero
\* byte, as serialized records do.
ReaderPayloads == {<<65, 0, 66>>}

NextReader ==
    \/ \E uri \in Uris, data \in ReaderPayloads : db_write(uri, data)
    \/ \E key \in ReadKeys, ds \in CallerDatasets : db_read(key, ds)
    \/ \E uri \in CheckpointUris, data \in ShortData : db_checkpoint(uri, data)
    \/ db_close
    \/ read

SpecReader == InitCheckpoint /\ [][NextReader]_vars


(***************************************************************************)
(* Properties.                                                             *)
(***************************************************************************)
Range(f) == {f[i] : i \in DOMAIN f}
\* The library calls among the entries of a trace.
LibCalls(tr) == {i \in DOMAIN tr : tr[i].rc # NoRc}
\* The registered client.
Client == objs[instance]
\* The node a key of the registered client routes to.
NodeOf(key) == Route(Client.handle.ch, key)

\* C1: db_write(key, payload) followed by db_read(key, dataset) on the same
\* client, all nodes open and the put and the get both succeeding, appends to dataset a
\* value equal to payload byte for byte (also for an empty payload and for a
\* payload that holds zero bytes).
C1_RoundTrip ==
    [][(/\ \A n \in Nodes : nodes[n] = "open"
        /\ last.op = "db_write" /\ last.outcome = "returned"
        /\ trace[1].rc = OK
        /\ last'.op = "db_read" /\ last'.key = last.key
        /\ trace'[1].rc = OK)
       => (/\ last'.outcome = "returned"
           /\ dataset' # <<>>
           /\ dataset'[Len(dataset')] = PyBytes(last.data))]_vars

\* C2: on a client whose nodes are all open, db_read of a key that was never
\* written ends in KeyNotFound: no NULL document pointer is dereferenced and
\* the call does not return normally.
C2_KeyNotFound ==
    (/\ last.op = "db_read"
     /\ \A n \in Nodes : nodes[n] = "open" /\ last.key \notin DOMAIN store[n]
     /\ last.key \notin Range(Client.dataset_key))
    => (/\ last.outcome = "KeyNotFound"
        /\ \A i \in DOMAIN trace : trace[i].ev # "deref_null")

\* ceil(n / d)
CeilDiv(n, d) == (n + d - 1) \div d

RECURSIVE ConcatChunks(_, _)
\* The chunks c0 .. c(k-1) of the store, concatenated in index order (a
\* chunk that is not stored counts as empty).
ConcatChunks(uri, k) ==
    IF k = 0 THEN <<>>
    ELSE LET key == ChunkKey(uri, k - 1)
             n   == NodeOf(key)
         IN  ConcatChunks(uri, k - 1)
                 \o (IF key \in DOMAIN store[n] THEN store[n][key] ELSE <<>>)

\* C3: a db_checkpoint(uri, data) whose puts all succeed writes
\* ceil(len(data)/bs) chunk documents, and the chunks concatenated in index
\* order are data.
C3_AllChunks ==
    (/\ last.op = "db_checkpoint" /\ last.outcome = "returned"
     /\ \A i \in DOMAIN trace : trace[i].rc = OK)
    => (/\ Len(trace) = CeilDiv(Len(last.data), bs)
        /\ ConcatChunks(last.key, CeilDiv(Len(last.data), bs)) = last.data)

\* C4: after any sequence of get_instance() and DbWrapper() calls at most one
\* client exists: db_init has run at most once, the only object ever
\* initialised is the registered one, it has 4 nodes, and every
\* get_instance() returns it.
C4_Singleton ==
    /\ inits <= 1
    /\ \A o \in DOMAIN objs : ~objs[o].handle.null => o = instance
    /\ instance # None =>
         /\ ~Client.handle.null
         /\ Client.handle.node_num = 4
         /\ inits = 1
    /\ last.op = "get_instance" => (last.ret = instance /\ instance # None)

\* C4 witness: get_instance() returned the first object after a second
\* construction had been attempted, without opening anything.
C4_Witness ==
    /\ last.op = "get_instance" /\ last.ret = 1
    /\ Len(objs) = 2
    /\ trace = <<>>

\* C5: DbWrapper() while an instance is registered raises, and leaves the
\* registered instance, its handle, its dataset_key and the nodes as they
\* were: no db_init runs and nothing is opened.
C5_SecondConstructorRaises ==
    [][(instance # None /\ last'.op = "DbWrapper")
       => (/\ last'.outcome = "Exception"
           /\ instance' = instance
           /\ objs'[instance] = objs[instance]
           /\ nodes' = nodes
           /\ inits' = inits
           /\ LibCalls(trace') = {})]_vars

\* C5 witness: DbWrapper() raised on a client that had written a key.
C5_Witness ==
    /\ last.op = "DbWrapper" /\ last.outcome = "Exception"
    /\ instance # None
    /\ Client.dataset_key # <<>>

\* C6: once db_close() has closed the client's nodes, db_write, db_read and
\* db_checkpoint fail with Closed and call nothing on any node.
C6_ClosedRejects ==
    (/\ \A n \in Nodes : nodes[n] = "closed"
     /\ last.op \in {"db_write", "db_read", "db_checkpoint"})
    => (last.outcome = "Closed" /\ LibCalls(trace) = {})

\* C7: on a client whose nodes are all open, db_write appends key to
\* dataset_key exactly when its put succeeds; a failed put leaves
\* dataset_key as it was.
C7_AppendOnSuccess ==
    [][(last'.op = "db_write" /\ \A n \in Nodes : nodes[n] = "open")
       => IF trace'[1].rc = OK
          THEN objs'[instance].dataset_key = Append(objs[instance].dataset_key, last'.key)
          ELSE objs'[instance].dataset_key = objs[instance].dataset_key]_vars

\* C8: in every db_read that got a document, the document is freed exactly
\* once and none of its fields is read after that.
C8_NoReadAfterFree ==
    (last.op = "db_read" /\ trace[1].rc = OK)
    => (/\ Cardinality({i \in DOMAIN trace : trace[i].ev = "free_document"}) = 1
        /\ \A i, j \in DOMAIN trace :
             (trace[i].ev = "free_document" /\ j > i)
                => trace[j].ev \notin {"read_data_buf", "read_data_size"})

\* C9: no client with a node that failed to open stays registered:
\* get_instance() never returns one, and no db_write or db_read runs on one.
C9_NoPartialClient ==
    (instance # None /\ last.op \in {"get_instance", "db_write", "db_read"})
    => \A n \in Nodes : nodes[n] # "unopened"

\* C10: when the threads have all returned from a concurrent
\* get_instance(), db_init has run exactly once, no call raised, all calls
\* returned the same instance, and none returned it with its handle unset.
C10_ConcurrentSingleton ==
    (\A t \in Threads : threads[t].pc = "done")
    => (/\ inits = 1
        /\ \A t \in Threads :
             /\ threads[t].ret = "returned"
             /\ ~threads[t].unset
             /\ threads[t].got = threads[1].got)

\* C11: db_init on a client that is already initialised fails with
\* AlreadyInitialized and leaves the client's handle (ring and node count),
\* the nodes and dataset_key as they were; a db_init that succeeds is the
\* client's first one and leaves dataset_key empty.
C11_InitOnce ==
    [][(last'.op = "db_init" /\ instance # None)
       => IF ~objs[instance].handle.null
          THEN /\ last'.outcome = "AlreadyInitialized"
               /\ objs'[instance] = objs[instance]
               /\ nodes' = nodes
          ELSE last'.outcome = "returned"
                  => objs'[instance].dataset_key = <<>>]_vars

\* The entries of a trace that are puts.
Puts(tr) == {j \in DOMAIN tr : tr[j].ev = "save_document"}
\* The least element of a non-empty set of integers.
Min(S) == CHOOSE i \in S : \A j \in S : i <= j

\* C12: a db_checkpoint that put at least one chunk ends in one of two
\* ways: every put succeeded and a commit followed them before the return,
\* or the call reports the index of the first chunk whose put failed and
\* issued no put after that one.
C12_AllOrFirstFailure ==
    (last.op = "db_checkpoint" /\ Puts(trace) # {})
    => LET failed == {j \in Puts(trace) : trace[j].rc # OK}
       IN  IF failed = {}
           THEN \E c \in DOMAIN trace :
                    /\ trace[c].ev = "commit_nodes"
                    /\ \A j \in Puts(trace) : j < c
           ELSE /\ last.outcome = "ChunkFailed"
                /\ last.ret = Min(failed) - 1
                /\ \A j \in Puts(trace) : j <= Min(failed)

\* The entries of a trace that are gets.
Gets(tr) == {j \in DOMAIN tr : tr[j].ev = "open_document"}

\* C13: on a client whose nodes are all open, a db_write or db_read in which
\* the put, the get or the commit failed does not return normally, and there
\* is no retry: a db_write issues exactly one put, a db_read exactly one get.
C13_FailuresSurface ==
    (/\ last.op \in {"db_write", "db_read"}
     /\ \A n \in Nodes : nodes[n] = "open")
    => /\ (\E i \in LibCalls(trace) : trace[i].rc = FAIL)
              => last.outcome # "returned"
       /\ last.op = "db_write" => Cardinality(Puts(trace)) = 1
       /\ last.op = "db_read" => Cardinality(Gets(trace)) = 1

\* The calls and accesses of a trace, by name.
Evs(tr) == [j \in DOMAIN tr |-> tr[j].ev]

C15_UriKeepsChunks ==
    [][(/\ last.op = "db_checkpoint"
        /\ last'.op = "db_checkpoint"
        /\ last'.key # last.key)
       => \A j \in Puts(trace) :
            trace[j].rc = OK
               => LET key == ChunkKey(last.key, j - 1)
                      n   == trace[j].node
                  IN  /\ key \in DOMAIN store'[n]
                      /\ store'[n][key] = store[n][key]]_vars

\* The nodes thread t is inside a library call on: the routed node during
\* the put, the nodes of the commit during the commit.
InsideNodes(t) ==
    IF threads[t].pc = "in_put" THEN {WriterNode(t)}
    ELSE IF threads[t].pc = "in_commit" THEN CommitNodes(WriterNode(t))
    ELSE {}

\* C16: with threads calling db_write concurrently on the shared client, no
\* two threads are inside a put or commit of the same node at once, and when
\* all calls have returned dataset_key holds each thread's key exactly once.
C16_WritesSerialized ==
    /\ \A t, u \in Threads :
         t # u => InsideNodes(t) \cap InsideNodes(u) = {}
    /\ (\A t \in Threads : threads[t].pc = "done")
          => \A t \in Threads :
               Cardinality({i \in DOMAIN Client.dataset_key :
                               Client.dataset_key[i] = threads[t].key}) = 1

\* The nodes that hold a document under key.
Holders(key) == {n \in Nodes : key \in DOMAIN store[n]}

C18_CloseOnce ==
    [][(/\ last'.op = "db_close"
        /\ \A n \in HandleNodes : nodes[n] = "closed")
       => \A i \in DOMAIN trace' : trace'[i].ev # "close_multiple_dbs"]_vars

\* C19: db_init(0) fails with InvalidTopology and calls nothing in the
\* library; no registered client is left initialised with zero nodes, and no
\* db_write or db_read routes on an empty ring.
C19_ZeroNodesRejected ==
    /\ (last.op = "db_init" /\ last.data = <<0>>)
          => (last.outcome = "InvalidTopology" /\ LibCalls(trace) = {})
    /\ instance # None
          => (Client.handle.null \/ Client.handle.node_num > 0)
    /\ (last.op \in {"db_write", "db_read"} /\ trace # <<>>)
          => trace[1].node # NoNode

\* A db_checkpoint returned and every put it issued succeeded.
CheckpointDone ==
    /\ last.op = "db_checkpoint" /\ last.outcome = "returned"
    /\ \A i \in DOMAIN trace : trace[i].rc = OK
\* The bytes that checkpoint stored: its chunks in index order.
Written == ConcatChunks(last.key, Len(trace))

\* C20: db_checkpoint emits size - 1 chunks for size = len(data)//bs + 1;
\* when len(data) is a positive multiple of bs the final bs bytes are not
\* written, and for every other length the final partial chunk is not
\* written.
C20_DropsLastChunk ==
    CheckpointDone
    => LET len == Len(last.data)
       IN  /\ Len(trace) = CheckpointSize(last.data) - 1
           /\ IF len > 0 /\ len % bs = 0
              THEN Written = Take(last.data, len - bs)
              ELSE Written = Take(last.data, len - (len % bs))

\* C20, amended: db_checkpoint emits size - 1 = len(data)//bs chunks; when
\* len(data) is a multiple of bs they hold all of data and nothing is
\* dropped, and for every other length the final partial chunk, the last
\* len(data) % bs bytes, is not written.
C20_DropsPartialChunk ==
    CheckpointDone
    => LET len == Len(last.data)
       IN  /\ Len(trace) = CheckpointSize(last.data) - 1
           /\ Len(trace) = len \div bs
           /\ IF len % bs = 0
              THEN Written = last.data
              ELSE Written = Take(last.data, len - (len % bs))

\* C20 witness: a checkpoint of 2 * bs bytes stored both chunks, and with
\* them all of its data.
C20_Witness ==
    /\ CheckpointDone
    /\ Len(last.data) = 2 * bs
    /\ Len(trace) = 2
    /\ Written = last.data

\* C21: no db_write of DBGenerator.generate replaces a stored sample: the
\* keys of different (file, sample) pairs differ, so every document keeps
\* the record it was first given.
C21_KeysUnique ==
    [][last'.op = "db_write"
       => \A n \in Nodes : \A key \in DOMAIN store[n] :
            store'[n][key] = store[n][key]]_vars

\* The gets of a trace, in order.
GetSeq(tr) == SelectSeq(tr, LAMBDA e : e.ev = "open_document")

\* dataset_key is left alone by db_read, db_checkpoint, db_close and
\* DBReader.read, and db_write does nothing to it but append its key.
KeysFrame ==
    /\ last'.op \in {"db_read", "db_checkpoint", "db_close", "read"}
          => objs'[instance].dataset_key = objs[instance].dataset_key
    /\ last'.op = "db_write"
          => /\ objs'[instance].dataset_key
                   \in {objs[instance].dataset_key,
                        Append(objs[instance].dataset_key, last'.key)}
             /\ last'.outcome = "returned"
                   => objs'[instance].dataset_key
                         = Append(objs[instance].dataset_key, last'.key)

\* The gets of a DBReader.read are those of the keys it asked for, in order,
\* each on the node its key routes to.
ReadGets ==
    LET gets == GetSeq(trace')
    IN  /\ Len(gets) = Len(last'.data)
        /\ \A j \in DOMAIN gets :
             gets[j].node = Route(objs[instance].handle.ch, last'.data[j])

=============================================================================
